---- MODULE Spec2Model ----
(***************************************************************************)
(* Model of the accident detection engine of                               *)
(* src/models/sequential_estimators.py (AccidentDetector and the per-car   *)
(* DetectorSuite: ARIMAPredictor, CUSUMDetector, SPRTDetector,             *)
(* PageHinkleyDetector) with the parameters of src/config.py.              *)
(* and of the server around it, src/app.py: the data_stream_worker        *)
(* background task, the clear_accident route and the start_simulation,     *)
(* stop_simulation and update_config socket handlers.                      *)
(*                                                                         *)
(* Numbers.  Speeds are integers (mph).  The floating point quantities of  *)
(* the code are kept exactly as scaled integers:                           *)
(*   - predictions and the CUSUM statistic in units of 1/PredScale, so     *)
(*     that the mean of 1..10 integer speeds is an integer;                *)
(*   - the SPRT log-likelihood ratio in units of 1/SprtScale; the          *)
(*     quadratic part of ln(p_h1/p_h0) is then an integer and ln(h0_std /  *)
(*     h1_std) = ln 2 is rounded to LogStdRatio / SprtScale;               *)
(*   - the Page-Hinkley sums are integers.                                 *)
(* The result record carries the statistics unrounded (the code rounds     *)
(* them to two decimals for display only).                                 *)
(*                                                                         *)
(* The one-step forecast of the statsmodels ARIMA fit is library code the  *)
(* repository does not determine: with ten or more retained speeds the     *)
(* prediction is a nondeterministic choice between the except-branch       *)
(* fallback (mean of the last ten) and the values of ArimaForecasts.       *)
(***************************************************************************)
EXTENDS Integers, Sequences, FiniteSets, TLC

VARIABLES
    detectors,   \* AccidentDetector.detectors: car_id -> DetectorSuite
    results,     \* the list returned by the latest process_speed call
    clock,       \* number of process_speed calls made; the next timestamp
    lastStep,    \* the operation of the latest step and the car's state before it
    minted,      \* per car, the accident ids minted so far (history)
    shadow,      \* a second AccidentDetector, constructed for the round trip
    shadowResults, \* the list returned by the latest process_speed on shadow
    phase,       \* "run", or "compare" once the round trip has started
    call,        \* the latest process_speed call on a list: its frame and
                 \* the registry before it
    config,      \* the class attributes of Config that handle_update_config sets
    update,      \* the latest update_config request, Config before it, and
                 \* whether config_updated was emitted
    simulation_running, \* the global of app.py
    active_accidents,   \* the global list of app.py
    accident_history,   \* the global list of app.py
    workers,     \* the data_stream_worker threads: position, the frame of
                 \* their process_speed call, the registry when it was called
    cpu,         \* the green thread that is running (0: none, the hub waits)
    tick,        \* the latest tick: activations of its process_speed call,
                 \* accident_alert and accident_cleared events it emitted
    pending,     \* tokens of accidents that ended (Active -> Idle) and for
                 \* which no accident_cleared has been emitted
    unit,        \* one detector object on its own: its class, its fields,
                 \* the output of its latest update, the calls made on it,
                 \* its statistic and alert at the latest reset()
    fresh        \* a detector of the same class constructed at the latest
                 \* reset() of unit, and the output of its latest update

roundTripVars == <<shadow, shadowResults, phase>>
batchVars == <<call>>
configVars == <<config, update>>
appVars == <<simulation_running, active_accidents, accident_history, workers,
             cpu, tick, pending>>

unitVars == <<unit, fresh>>

vars == <<detectors, results, clock, lastStep, minted, roundTripVars, batchVars,
          configVars, appVars, unitVars>>

----------------------------------------------------------------------------
(* Bounds of the model *)

\* observations processed per car
MaxObs == 11
\* the random suffix of an accident id is drawn from 0..MaxSuffix
MaxSuffix == 1
\* observations fed to both detectors after the round trip's reset
MaxCompare == 2
\* length of a list handed to process_speed
MaxBatch == 2
\* calls of process_speed on a list
MaxCalls == 6
\* observations processed per car beside configuration updates
MaxConfigObs == 2
\* update_config requests
MaxUpdates == 1
\* data_stream_worker threads started
MaxWorkers == 2
\* ticks of the workers under start and stop events
MaxSchedTicks == 3
\* update calls made on a detector object on its own
MaxUnitCalls == 4
\* observations of the other car interleaved with those of the followed car
MaxOther == 2

Cars == {"Car1", "Car2"}
\* the cars the observation producer reports on
ObservedCars == {"Car1"}
\* speeds fed to the engine: three within the producer's clamp [0, 120] and
\* one far above it, where the accident density underflows
Speeds == {0, 30, 60, 400}
\* forecasts the fitted ARIMA model may return (mph)
ArimaForecasts == {120}

----------------------------------------------------------------------------
(* src/config.py *)

SIMULATION_SPEED == 1
NOISE_LEVEL == 5
NORMAL_SPEED_MEAN == 60
NORMAL_SPEED_STD == 10
ACCIDENT_SPEED_MEAN == 15
ACCIDENT_SPEED_STD == 5
CUSUM_THRESHOLD == 10
CUSUM_DRIFT == 2
SPRT_THRESHOLD_UPPER == 5
\* SPRT_THRESHOLD_LOWER = 0.2 = 1 / SprtLowerInverse
SprtLowerInverse == 5
PAGE_HINKLEY_THRESHOLD == 8
PAGE_HINKLEY_DELTA == 2
BUFFER_SIZE == 300
MIN_SAMPLES_FOR_DETECTION == 10
REQUIRE_VOTES == 2

\* ARIMAPredictor: deque(maxlen=60), and the 10 of predict()
ArimaMaxLen == 60
ArimaMinHistory == 10
\* process_speed: the clearance window and the recovered speed
RecentWindow == 5
RecoveredSpeed == 40

PredScale == 8 * 9 * 5 * 7
SprtFine == 4
SprtScale == 2 * NORMAL_SPEED_STD * NORMAL_SPEED_STD
               * ACCIDENT_SPEED_STD * ACCIDENT_SPEED_STD * SprtFine
\* ln(NORMAL_SPEED_STD / ACCIDENT_SPEED_STD) = ln 2, in units of 1/SprtScale
LogStdRatio == 13863

----------------------------------------------------------------------------
(* Sequences *)

RECURSIVE SumSeq(_)
SumSeq(s) == IF s = <<>> THEN 0 ELSE Head(s) + SumSeq(Tail(s))

\* list(d)[-n:]
LastN(s, n) == IF Len(s) <= n THEN s ELSE SubSeq(s, Len(s) - n + 1, Len(s))

\* deque(maxlen=m).append(x)
DequeAppend(s, x, m) == LastN(Append(s, x), m)

\* np.mean of a nonempty list of speeds, in units of 1/PredScale
MeanScaled(s) == (SumSeq(s) * PredScale) \div Len(s)

Max(a, b) == IF a >= b THEN a ELSE b
Min(a, b) == IF a <= b THEN a ELSE b

\* number of positions at which a stream of speeds changes value
Changes(s) == Cardinality({i \in 1..(Len(s) - 1) : s[i] # s[i + 1]})

----------------------------------------------------------------------------
(* ARIMAPredictor *)

\* ARIMAPredictor.update
ArimaUpdate(history, speed) == DequeAppend(history, speed, ArimaMaxLen)

\* ARIMAPredictor.predict: the values it may return, in units of 1/PredScale
ArimaPredict(history) ==
    IF Len(history) < ArimaMinHistory
    THEN {IF history # <<>> THEN MeanScaled(history)
                            ELSE NORMAL_SPEED_MEAN * PredScale}
    ELSE {f * PredScale : f \in ArimaForecasts}
         \cup {MeanScaled(LastN(history, 10))}

----------------------------------------------------------------------------
(* CUSUMDetector *)

\* mutant of CusumUpdate: the statistic is not floored at 0
CusumUpdate_NoFloor(cusum_stat, speed, predicted_speed) ==
    cusum_stat - (speed * PredScale - predicted_speed) - CUSUM_DRIFT * PredScale

\* CUSUMDetector.update: the new cusum_stat, in units of 1/PredScale
CusumUpdate(cusum_stat, speed, predicted_speed) ==
    LET residual == speed * PredScale - predicted_speed
    IN  Max(0, cusum_stat - residual - CUSUM_DRIFT * PredScale)

\* is_alert = self.cusum_stat > self.threshold
CusumAlert(cusum_stat, threshold) == cusum_stat > threshold * PredScale

----------------------------------------------------------------------------
(* SPRTDetector *)

\* stats.norm.pdf(speed, mean, std) > 0: in double precision the density
\* underflows to 0 once the squared z-score passes about 2 * 741
DensityPositive(speed, mean, std) ==
    (speed - mean) * (speed - mean) <= 2 * 741 * std * std

\* float('-inf'): np.log(0.0), and absorbing under addition
NegInf == 0 - 1000000000

\* np.log(p_h1 / p_h0) in units of 1/SprtScale:
\* ln(s0/s1) - (x - m1)^2 / (2 s1^2) + (x - m0)^2 / (2 s0^2)
LogLikelihoodStep(speed) ==
    LogStdRatio
    + SprtFine * ( ACCIDENT_SPEED_STD * ACCIDENT_SPEED_STD
                     * (speed - NORMAL_SPEED_MEAN) * (speed - NORMAL_SPEED_MEAN)
                 - NORMAL_SPEED_STD * NORMAL_SPEED_STD
                     * (speed - ACCIDENT_SPEED_MEAN) * (speed - ACCIDENT_SPEED_MEAN) )

\* SPRTDetector.update: the new log_likelihood_ratio
SprtUpdate(log_likelihood_ratio, speed) ==
    IF DensityPositive(speed, NORMAL_SPEED_MEAN, NORMAL_SPEED_STD)
    THEN IF \/ ~DensityPositive(speed, ACCIDENT_SPEED_MEAN, ACCIDENT_SPEED_STD)
            \/ log_likelihood_ratio = NegInf
         THEN NegInf
         ELSE log_likelihood_ratio + LogLikelihoodStep(speed)
    ELSE log_likelihood_ratio

SprtDecision(log_likelihood_ratio) ==
    IF log_likelihood_ratio >= SPRT_THRESHOLD_UPPER * SprtScale THEN "accident"
    ELSE IF log_likelihood_ratio = NegInf
            \/ log_likelihood_ratio * SprtLowerInverse <= SprtScale THEN "normal"
    ELSE "continue"

----------------------------------------------------------------------------
(* PageHinkleyDetector *)

\* mutant of PhUpdate: min_sum is not updated
PhUpdate_KeepsMin(sum_diff, min_sum, speed) ==
    [sum_diff |-> sum_diff + NORMAL_SPEED_MEAN - speed - PAGE_HINKLEY_DELTA,
     min_sum  |-> min_sum]

\* PageHinkleyDetector.update: the new sum_diff and min_sum
PhUpdate(sum_diff, min_sum, speed) ==
    LET diff == NORMAL_SPEED_MEAN - speed - PAGE_HINKLEY_DELTA
        s    == sum_diff + diff
    IN  [sum_diff |-> s, min_sum |-> Min(min_sum, s)]

PhStat(ph) == ph.sum_diff - ph.min_sum

PhAlert(ph_stat) == ph_stat > PAGE_HINKLEY_THRESHOLD

----------------------------------------------------------------------------
(* A detector object on its own *)

DetectorKinds == {"cusum", "sprt", "ph"}

\* the fields of CUSUMDetector(), SPRTDetector() or PageHinkleyDetector()
\* after __init__
NewDetector ==
    [ cusum_threshold      |-> config.CUSUM_THRESHOLD,
      cusum_stat           |-> 0,
      log_likelihood_ratio |-> 0,
      sum_diff             |-> 0,
      min_sum              |-> 0 ]

\* update(speed, predicted_speed) of the detector of class kind
DetectorUpdate(kind, det, speed, predicted_speed) ==
    IF kind = "cusum"
    THEN [det EXCEPT !.cusum_stat = CusumUpdate(@, speed, predicted_speed)]
    ELSE IF kind = "sprt"
    THEN [det EXCEPT !.log_likelihood_ratio = SprtUpdate(@, speed)]
    ELSE LET ph == PhUpdate(det.sum_diff, det.min_sum, speed)
         IN  [det EXCEPT !.sum_diff = ph.sum_diff, !.min_sum = ph.min_sum]

\* what update returns: the statistic and the alert or decision
DetectorOutput(kind, det) ==
    IF kind = "cusum"
    THEN <<det.cusum_stat, CusumAlert(det.cusum_stat, det.cusum_threshold)>>
    ELSE IF kind = "sprt"
    THEN <<det.log_likelihood_ratio, SprtDecision(det.log_likelihood_ratio)>>
    ELSE <<PhStat(det), PhAlert(PhStat(det))>>

\* mutant of DetectorReset: PageHinkleyDetector.reset leaves min_sum
DetectorReset_KeepsMin(kind, det) ==
    IF kind = "cusum" THEN [det EXCEPT !.cusum_stat = 0]
    ELSE IF kind = "sprt" THEN [det EXCEPT !.log_likelihood_ratio = 0]
    ELSE [det EXCEPT !.sum_diff = 0]

\* CUSUMDetector.reset(), SPRTDetector.reset(), PageHinkleyDetector.reset()
DetectorReset(kind, det) ==
    IF kind = "cusum" THEN [det EXCEPT !.cusum_stat = 0]
    ELSE IF kind = "sprt" THEN [det EXCEPT !.log_likelihood_ratio = 0]
    ELSE [det EXCEPT !.sum_diff = 0, !.min_sum = 0]

----------------------------------------------------------------------------
(* DetectorSuite *)

\* Python's None, and a present value, of an optional field
None == <<>>
Some(x) == <<x>>

\* DetectorSuite.__init__
NewSuite(car_id) ==
    [ car_id               |-> car_id,
      arima_history        |-> <<>>,
      \* CUSUMDetector.__init__: threshold or Config.CUSUM_THRESHOLD
      cusum_threshold      |-> config.CUSUM_THRESHOLD,
      cusum_stat           |-> 0,
      log_likelihood_ratio |-> 0,
      sum_diff             |-> 0,
      min_sum              |-> 0,
      speed_history        |-> <<>>,
      accident_active      |-> FALSE,
      accident_start_time  |-> None,
      accident_id          |-> None ]

\* mutant of ResetDetectors: sprt.reset() is left out
ResetDetectors_SkipSprt(suite) ==
    [suite EXCEPT !.cusum_stat = 0, !.sum_diff = 0, !.min_sum = 0]

\* mutant of ResetDetectors: the reset also empties the predictor's history
ResetDetectors_ClearsPredictor(suite) ==
    [suite EXCEPT !.cusum_stat = 0, !.log_likelihood_ratio = 0,
                  !.sum_diff = 0, !.min_sum = 0, !.arima_history = <<>>]

\* DetectorSuite.reset_detectors: CUSUMDetector.reset, SPRTDetector.reset,
\* PageHinkleyDetector.reset
ResetDetectors(suite) ==
    [suite EXCEPT !.cusum_stat = 0,
                  !.log_likelihood_ratio = 0,
                  !.sum_diff = 0,
                  !.min_sum = 0]

----------------------------------------------------------------------------
(* AccidentDetector *)

\* AccidentDetector.get_or_create_suite: the registry afterwards
GetOrCreateSuite(dets, car_id) ==
    IF car_id \in DOMAIN dets
    THEN dets
    ELSE [c \in DOMAIN dets \cup {car_id} |->
             IF c = car_id THEN NewSuite(car_id) ELSE dets[c]]

\* mutant of ResetCarState: every registered suite is reset
ResetCarState_Everyone(dets, car_id) ==
    [c \in DOMAIN dets |->
        ResetDetectors([dets[c] EXCEPT !.accident_active = FALSE])]

\* mutant of ResetCarState: accident_active is not cleared
ResetCarState_KeepsActive(dets, car_id) ==
    IF car_id \in DOMAIN dets
    THEN [dets EXCEPT ![car_id] = ResetDetectors(dets[car_id])]
    ELSE dets

\* mutant of ResetCarState: the suite is looked up with get_or_create_suite
ResetCarState_Creates(dets, car_id) ==
    [GetOrCreateSuite(dets, car_id) EXCEPT ![car_id] =
        ResetDetectors([@ EXCEPT !.accident_active = FALSE])]

\* AccidentDetector.reset_car: the registry afterwards
ResetCarState(dets, car_id) ==
    IF car_id \in DOMAIN dets
    THEN [dets EXCEPT ![car_id] =
             ResetDetectors([dets[car_id] EXCEPT !.accident_active = FALSE])]
    ELSE dets

\* AccidentDetector.reset_all: the registry afterwards
ResetAllState(dets) ==
    [c \in DOMAIN dets |->
        ResetDetectors([dets[c] EXCEPT !.accident_active = FALSE])]

\* sum([cusum_alert, sprt_decision == 'accident', ph_alert])
VoteCount(cusum_alert, sprt_decision, ph_alert) ==
    (IF cusum_alert THEN 1 ELSE 0)
    + (IF sprt_decision = "accident" THEN 1 ELSE 0)
    + (IF ph_alert THEN 1 ELSE 0)

\* mutant of HasEnoughData: the warm-up ends one sample early
HasEnoughData_OffByOne(speed_history) ==
    Len(speed_history) >= MIN_SAMPLES_FOR_DETECTION - 1

\* the warm-up test of process_speed
HasEnoughData(speed_history) == Len(speed_history) >= MIN_SAMPLES_FOR_DETECTION

\* mutant of AccidentDetected: the quorum is compared with > instead of >=
AccidentDetected_Strict(has_enough_data, vote_count) ==
    has_enough_data /\ vote_count > REQUIRE_VOTES

AccidentDetected(has_enough_data, vote_count) ==
    has_enough_data /\ vote_count >= REQUIRE_VOTES

\* mutant of ClearCondition: the sum, not the mean, is compared with 40
ClearCondition_SumNotMean(speed_history) ==
    LET recent_speeds == LastN(speed_history, RecentWindow)
    IN  /\ Len(recent_speeds) >= RecentWindow
        /\ SumSeq(recent_speeds) > RecoveredSpeed

\* the clearance test of process_speed on list(speed_history)[-5:]
ClearCondition(speed_history) ==
    LET recent_speeds == LastN(speed_history, RecentWindow)
    IN  /\ Len(recent_speeds) >= RecentWindow
        /\ SumSeq(recent_speeds) > RecoveredSpeed * Len(recent_speeds)

\* f"acc_{car_id}_{int(np.random.random() * 1000)}"
AccidentId(car_id, suffix) == <<"acc", car_id, suffix>>

\* mutant of UpdateAccidentState: an activation records no start time
UpdateAccidentState_NoStartTime(suite, accident_detected, timestamp, suffix) ==
    IF accident_detected /\ ~suite.accident_active
    THEN [suite EXCEPT !.accident_active = TRUE,
                       !.accident_id = Some(AccidentId(suite.car_id, suffix))]
    ELSE IF ~accident_detected /\ suite.accident_active
              /\ ClearCondition(suite.speed_history)
    THEN ResetDetectors([suite EXCEPT !.accident_active = FALSE])
    ELSE suite

\* the lifecycle update of process_speed on a suite whose history and
\* detectors have been updated
UpdateAccidentState(suite, accident_detected, timestamp, suffix) ==
    IF accident_detected /\ ~suite.accident_active
    THEN [suite EXCEPT !.accident_active = TRUE,
                       !.accident_start_time = Some(timestamp),
                       !.accident_id = Some(AccidentId(suite.car_id, suffix))]
    ELSE IF ~accident_detected /\ suite.accident_active
              /\ ClearCondition(suite.speed_history)
    THEN ResetDetectors([suite EXCEPT !.accident_active = FALSE])
    ELSE suite

\* One iteration of the loop of process_speed: the registry afterwards and
\* the result appended.  predicted_speed is the value arima.predict()
\* returned, suffix the random draw of the accident id.
ProcessObservation(dets, data, predicted_speed, suffix) ==
    LET car_id    == data.car_id
        created   == GetOrCreateSuite(dets, car_id)
        suite     == created[car_id]
        speed     == data.speed
        timestamp == data.timestamp
        history   == DequeAppend(suite.speed_history, speed, BUFFER_SIZE)
        arima     == ArimaUpdate(suite.arima_history, speed)
        cusum     == CusumUpdate(suite.cusum_stat, speed, predicted_speed)
        sprt      == SprtUpdate(suite.log_likelihood_ratio, speed)
        ph        == PhUpdate(suite.sum_diff, suite.min_sum, speed)
        votes     == VoteCount(CusumAlert(cusum, suite.cusum_threshold),
                               SprtDecision(sprt),
                               PhAlert(PhStat(ph)))
        detected  == AccidentDetected(HasEnoughData(history), votes)
        updated   == [suite EXCEPT !.speed_history = history,
                                   !.arima_history = arima,
                                   !.cusum_stat = cusum,
                                   !.log_likelihood_ratio = sprt,
                                   !.sum_diff = ph.sum_diff,
                                   !.min_sum = ph.min_sum]
        final     == UpdateAccidentState(updated, detected, timestamp, suffix)
    IN  [ detectors |-> [created EXCEPT ![car_id] = final],
          result    |-> [ car_id            |-> car_id,
                          timestamp         |-> timestamp,
                          speed             |-> speed,
                          predicted_speed   |-> predicted_speed,
                          cusum_stat        |-> cusum,
                          sprt_ratio        |-> sprt,
                          ph_stat           |-> PhStat(ph),
                          accident_detected |-> detected,
                          accident_active   |-> final.accident_active,
                          accident_id       |-> final.accident_id,
                          \* vote_count / 3.0, in thirds
                          confidence        |-> votes ] ]

\* the values arima.predict() may return for the observation data
Predictions(dets, data) ==
    ArimaPredict(ArimaUpdate(
        GetOrCreateSuite(dets, data.car_id)[data.car_id].arima_history,
        data.speed))

\* data['speed'] and data['timestamp'] do not raise KeyError
WellFormed(data) == "speed" \in DOMAIN data /\ "timestamp" \in DOMAIN data

\* mutant of ResultsAppend: a result is kept only when an accident is detected
ResultsAppend_DetectedOnly(res, result) ==
    IF result.accident_detected THEN Append(res, result) ELSE res

\* results.append({...})
ResultsAppend(res, result) == Append(res, result)

\* a call of process_speed(input) at the head of its loop
NewFrame(input) ==
    [ input   |-> input,
      rest    |-> input,
      results |-> <<>>,
      status  |-> IF input = <<>> THEN "returned" ELSE "running" ]

\* One iteration of the loop of process_speed in the call frame: the
\* registry and the frame afterwards.  On an observation without 'speed' the
\* suite has been looked up (and created) when data['speed'] raises, and the
\* exception leaves the function; after the last observation the function
\* returns its results.
Iterate(dets, frame, predicted_speed, suffix) ==
    LET data == Head(frame.rest)
        out  == ProcessObservation(dets, data, predicted_speed, suffix)
    IN  IF ~WellFormed(data)
        THEN [ detectors |-> GetOrCreateSuite(dets, data.car_id),
               frame     |-> [frame EXCEPT !.status = "raised"] ]
        ELSE [ detectors |-> out.detectors,
               frame     |-> [frame EXCEPT
                                !.rest = Tail(frame.rest),
                                !.results = ResultsAppend(frame.results, out.result),
                                !.status = IF Tail(frame.rest) = <<>>
                                           THEN "returned" ELSE "running"] ]

\* the values arima.predict() may return in the next iteration of the frame
FramePredictions(dets, frame) ==
    IF WellFormed(Head(frame.rest))
    THEN Predictions(dets, Head(frame.rest))
    ELSE {NORMAL_SPEED_MEAN * PredScale}

\* the data_stream_worker threads the model may start
Workers == 1..MaxWorkers

\* a thread that has not been started; after_stop counts the ticks the
\* thread began after a stop_simulation that found it alive (-1: none did)
NoThread ==
    [pc |-> "unborn", frame |-> NewFrame(<<>>), before |-> <<>>, after_stop |-> -1]

\* no tick has run
NoTick == [activated |-> <<>>, alerts |-> <<>>, cleared |-> <<>>, ended |-> {}]

----------------------------------------------------------------------------
(* State machine *)

IsActive(dets, c) == c \in DOMAIN dets /\ dets[c].accident_active

HistoryOf(dets, c) == IF c \in DOMAIN dets THEN dets[c].speed_history ELSE <<>>

Init ==
    /\ detectors = <<>>
    /\ results = <<>>
    /\ clock = 0
    /\ lastStep = [op |-> "init", car |-> "", was_active |-> FALSE]
    /\ minted = [c \in Cars |-> {}]
    /\ shadow = <<>>
    /\ shadowResults = <<>>
    /\ phase = "run"
    /\ call = [frame |-> NewFrame(<<>>), before |-> <<>>]
    /\ config = [ SIMULATION_SPEED |-> SIMULATION_SPEED,
                  NOISE_LEVEL      |-> NOISE_LEVEL,
                  CUSUM_THRESHOLD  |-> CUSUM_THRESHOLD ]
    /\ update = [data |-> <<>>, before |-> <<>>, acked |-> FALSE, count |-> 0]
    /\ simulation_running = FALSE
    /\ active_accidents = <<>>
    /\ accident_history = <<>>
    /\ workers = [w \in Workers |-> NoThread]
    /\ cpu = 0
    /\ tick = NoTick
    /\ pending = {}
    /\ unit = [kind |-> "none", det |-> NewDetector, out |-> <<>>,
               last |-> "none", calls |-> 0, reset_from |-> <<>>]
    /\ fresh = [det |-> NewDetector, out |-> <<>>]

\* process_speed([data]) with data = {car_id, timestamp, speed}
ProcessSpeed(car_id, speed) ==
    LET data == [car_id |-> car_id, timestamp |-> clock + 1, speed |-> speed]
    IN  \E predicted \in Predictions(detectors, data) :
        \E suffix \in 0..MaxSuffix :
          LET out == ProcessObservation(detectors, data, predicted, suffix)
              activated == out.detectors[car_id].accident_active
                           /\ ~IsActive(detectors, car_id)
          IN  /\ detectors' = out.detectors
              /\ results' = <<out.result>>
              /\ clock' = clock + 1
              /\ lastStep' = [op |-> "process_speed", car |-> car_id,
                              was_active |-> IsActive(detectors, car_id)]
              /\ minted' = IF activated
                           THEN [minted EXCEPT ![car_id] =
                                   @ \cup {out.detectors[car_id].accident_id[1]}]
                           ELSE minted

\* reset_car(car_id)
ResetCar(car_id) ==
    /\ detectors' = ResetCarState(detectors, car_id)
    /\ lastStep' = [op |-> "reset_car", car |-> car_id,
                    was_active |-> IsActive(detectors, car_id)]
    /\ UNCHANGED <<results, clock, minted>>

\* reset_all()
ResetAll ==
    /\ detectors' = ResetAllState(detectors)
    /\ lastStep' = [op |-> "reset_all", car |-> "",
                    was_active |-> \E c \in DOMAIN detectors :
                                       detectors[c].accident_active]
    /\ UNCHANGED <<results, clock, minted>>

\* the speed streams the model feeds to a car: one level, then at most one
\* other level
StreamShape(stream) == Changes(stream) <= 1

\* the observations the model feeds: at most MaxObs per car
InputAllowed(dets, car_id, speed) ==
    /\ Len(HistoryOf(dets, car_id)) < MaxObs
    /\ StreamShape(Append(HistoryOf(dets, car_id), speed))

Next ==
    \/ \E c \in ObservedCars, s \in Speeds :
          /\ InputAllowed(detectors, c, s)
          /\ ProcessSpeed(c, s)
          /\ UNCHANGED <<roundTripVars, batchVars, configVars, appVars, unitVars>>
    \/ \E c \in Cars :
          /\ ResetCar(c)
          /\ UNCHANGED <<roundTripVars, batchVars, configVars, appVars, unitVars>>
    \/ /\ ResetAll
       /\ UNCHANGED <<roundTripVars, batchVars, configVars, appVars, unitVars>>

Spec == Init /\ [][Next]_vars

----------------------------------------------------------------------------
(* Round trip: reset_car(id) on a detector that has seen id, beside a newly
   constructed AccidentDetector; both are then fed the same observations *)

\* reset_car(car_id) on detectors, and shadow = AccidentDetector()
StartRoundTrip(car_id) ==
    /\ phase = "run"
    /\ car_id \in DOMAIN detectors
    /\ ResetCar(car_id)
    /\ shadow' = <<>>
    /\ shadowResults' = <<>>
    /\ phase' = "compare"
    /\ UNCHANGED <<batchVars, configVars, appVars, unitVars>>

\* process_speed([data]) on detectors and on shadow, with the same data
ProcessBoth(car_id, speed) ==
    LET data == [car_id |-> car_id, timestamp |-> clock + 1, speed |-> speed]
    IN  /\ phase = "compare"
        /\ ProcessSpeed(car_id, speed)
        /\ \E predicted \in Predictions(shadow, data) :
           \E suffix \in 0..MaxSuffix :
             LET out == ProcessObservation(shadow, data, predicted, suffix)
             IN  /\ shadow' = out.detectors
                 /\ shadowResults' = <<out.result>>
        /\ phase' = phase
        /\ UNCHANGED <<batchVars, configVars, appVars, unitVars>>

NextRoundTrip ==
    \/ \E c \in ObservedCars, s \in Speeds :
          /\ phase = "run"
          /\ InputAllowed(detectors, c, s)
          /\ ProcessSpeed(c, s)
          /\ UNCHANGED <<roundTripVars, batchVars, configVars, appVars, unitVars>>
    \/ \E c \in ObservedCars : StartRoundTrip(c)
    \/ \E c \in ObservedCars, s \in Speeds :
          /\ c = lastStep.car
          /\ InputAllowed(detectors, c, s)
          /\ Len(HistoryOf(shadow, c)) < MaxCompare
          /\ ProcessBoth(c, s)

SpecRoundTrip == Init /\ [][NextRoundTrip]_vars

----------------------------------------------------------------------------
(* Two cars on one AccidentDetector.  The calls made for Followed are made
   as well, with the same data and the same draws, on a second
   AccidentDetector that never hears of the other car. *)

Followed == "Car1"
OtherCar == "Car2"

\* speeds of the followed car and of the other car
FollowedSpeeds == {0}
OtherSpeeds == {0}

\* process_speed([data]) for the followed car, on detectors and on shadow
ProcessFollowed(speed) ==
    LET data == [car_id |-> Followed, timestamp |-> clock + 1, speed |-> speed]
    IN  \E predicted \in Predictions(detectors, data) :
        \E suffix \in 0..MaxSuffix :
          LET out == ProcessObservation(detectors, data, predicted, suffix)
              alone == ProcessObservation(shadow, data, predicted, suffix)
              activated == out.detectors[Followed].accident_active
                           /\ ~IsActive(detectors, Followed)
          IN  /\ detectors' = out.detectors
              /\ results' = <<out.result>>
              /\ shadow' = alone.detectors
              /\ shadowResults' = <<alone.result>>
              /\ clock' = clock + 1
              /\ lastStep' = [op |-> "process_speed", car |-> Followed,
                              was_active |-> IsActive(detectors, Followed)]
              /\ minted' = IF activated
                           THEN [minted EXCEPT ![Followed] =
                                   @ \cup {out.detectors[Followed].accident_id[1]}]
                           ELSE minted
              /\ UNCHANGED phase

\* reset_car(Followed) on detectors and on shadow
ResetFollowed ==
    /\ ResetCar(Followed)
    /\ shadow' = ResetCarState(shadow, Followed)
    /\ UNCHANGED <<shadowResults, phase>>

\* the resets the model makes: of a registered car that is Active, or that
\* has at most MaxOther observations
ResetAllowed(c) ==
    /\ c \in DOMAIN detectors
    /\ \/ detectors[c].accident_active
       \/ Len(detectors[c].speed_history) <= MaxOther

NextIndependence ==
    \/ \E s \in FollowedSpeeds :
          /\ InputAllowed(detectors, Followed, s)
          /\ ProcessFollowed(s)
          /\ UNCHANGED <<batchVars, configVars, appVars, unitVars>>
    \/ /\ ResetAllowed(Followed)
       /\ ResetFollowed
       /\ UNCHANGED <<batchVars, configVars, appVars, unitVars>>
    \/ \E s \in OtherSpeeds :
          /\ Len(HistoryOf(detectors, OtherCar)) < MaxOther
          /\ ProcessSpeed(OtherCar, s)
          /\ UNCHANGED <<roundTripVars, batchVars, configVars, appVars, unitVars>>
    \/ /\ ResetAllowed(OtherCar)
       /\ ResetCar(OtherCar)
       /\ UNCHANGED <<roundTripVars, batchVars, configVars, appVars, unitVars>>

SpecIndependence == Init /\ [][NextIndependence]_vars

----------------------------------------------------------------------------
(* process_speed on a list of observations, some of which may lack 'speed' *)

\* process_speed(input) is called
CallProcessSpeed(input) ==
    /\ call.frame.status # "running"
    /\ call' = [frame |-> NewFrame(input), before |-> detectors]
    /\ results' = <<>>
    /\ clock' = clock + 1
    /\ lastStep' = [op |-> "call", car |-> "", was_active |-> FALSE]
    /\ UNCHANGED <<detectors, minted>>

\* the call of process_speed runs one iteration of its loop
IterateProcessSpeed ==
    /\ call.frame.status = "running"
    /\ \E predicted \in FramePredictions(detectors, call.frame) :
       \E suffix \in 0..MaxSuffix :
         LET out == Iterate(detectors, call.frame, predicted, suffix)
             car_id == Head(call.frame.rest).car_id
         IN  /\ detectors' = out.detectors
             /\ call' = [call EXCEPT !.frame = out.frame]
             /\ results' = IF out.frame.status = "returned"
                           THEN out.frame.results ELSE <<>>
             /\ lastStep' = [op |-> "iterate", car |-> car_id,
                             was_active |-> IsActive(detectors, car_id)]
             /\ minted' = IF IsActive(out.detectors, car_id)
                             /\ ~IsActive(detectors, car_id)
                          THEN [minted EXCEPT ![car_id] =
                                  @ \cup {out.detectors[car_id].accident_id[1]}]
                          ELSE minted
             /\ UNCHANGED clock

\* the speed the batches report for a car
BatchSpeed(c) == IF c = "Car1" THEN 0 ELSE NORMAL_SPEED_MEAN

\* the observations a batch with timestamp ts may hold: per car one with
\* its speed and one without the 'speed' field
BatchObservations(ts) ==
    {[car_id |-> c, timestamp |-> ts, speed |-> BatchSpeed(c)] : c \in Cars}
    \cup {[car_id |-> c, timestamp |-> ts] : c \in Cars}

\* the lists of at most MaxBatch observations
BatchInputs(ts) ==
    UNION {[1..n -> BatchObservations(ts)] : n \in 0..MaxBatch}

\* number of observations of car c in a list that process_speed appends
Appended(input, c) ==
    Cardinality({i \in 1..Len(input) :
                    WellFormed(input[i]) /\ input[i].car_id = c})

NextBatch ==
    \/ \E input \in BatchInputs(clock + 1) :
          /\ clock < MaxCalls
          /\ \A c \in Cars :
                Len(HistoryOf(detectors, c)) + Appended(input, c) <= MaxObs
          /\ CallProcessSpeed(input)
          /\ UNCHANGED <<roundTripVars, configVars, appVars, unitVars>>
    \/ /\ IterateProcessSpeed
       /\ UNCHANGED <<roundTripVars, configVars, appVars, unitVars>>

SpecBatch == Init /\ [][NextBatch]_vars

----------------------------------------------------------------------------
(* handle_update_config of src/app.py *)

ConfigKeys == {"simulation_speed", "noise_level", "cusum_threshold"}

\* the values a request may carry for a key: one that is not a usable
\* parameter (non-positive speed or threshold, negative noise) and one that is
ConfigValues(key) ==
    IF key = "simulation_speed" THEN {0, 2}
    ELSE IF key = "noise_level" THEN {0 - 1, 3}
    ELSE {0, 2 * CUSUM_THRESHOLD}

\* the requests: any subset of the keys, each with one of its values
UpdateRequests ==
    UNION { {data \in [keys -> UNION {ConfigValues(k) : k \in ConfigKeys}] :
                \A k \in keys : data[k] \in ConfigValues(k)} :
            keys \in SUBSET ConfigKeys }

\* Config after the assignments of handle_update_config
SetConfig(cfg, data) ==
    [ SIMULATION_SPEED |-> IF "simulation_speed" \in DOMAIN data
                           THEN data["simulation_speed"]
                           ELSE cfg.SIMULATION_SPEED,
      NOISE_LEVEL      |-> IF "noise_level" \in DOMAIN data
                           THEN data["noise_level"]
                           ELSE cfg.NOISE_LEVEL,
      CUSUM_THRESHOLD  |-> IF "cusum_threshold" \in DOMAIN data
                           THEN data["cusum_threshold"]
                           ELSE cfg.CUSUM_THRESHOLD ]

\* detector.cusum.threshold = ... raises AttributeError: detector is the
\* AccidentDetector, whose only attribute is the registry detectors
RaisesAttributeError(data) == "cusum_threshold" \in DOMAIN data

\* handle_update_config(data): the three assignments to Config, the
\* assignment to detector.cusum.threshold, then emit('config_updated'), which
\* is only reached when no exception left the handler
HandleUpdateConfig(data) ==
    /\ config' = SetConfig(config, data)
    /\ update' = [data |-> data, before |-> config,
                  acked |-> ~RaisesAttributeError(data),
                  count |-> update.count + 1]
    /\ lastStep' = [op |-> "update_config", car |-> "", was_active |-> FALSE]
    /\ UNCHANGED <<detectors, results, clock, minted>>

\* speeds fed to a car between configuration updates
ConfigSpeeds(c) ==
    IF c = "Car1" THEN {30, NORMAL_SPEED_MEAN} ELSE {NORMAL_SPEED_MEAN}

NextConfig ==
    \/ \E c \in Cars : \E s \in ConfigSpeeds(c) :
          /\ Len(HistoryOf(detectors, c)) < MaxConfigObs
          /\ ProcessSpeed(c, s)
          /\ UNCHANGED <<roundTripVars, batchVars, configVars, appVars, unitVars>>
    \/ \E data \in UpdateRequests :
          /\ update.count < MaxUpdates
          /\ HandleUpdateConfig(data)
          /\ UNCHANGED <<roundTripVars, batchVars, appVars, unitVars>>

SpecConfig == Init /\ [][NextConfig]_vars

----------------------------------------------------------------------------
(* src/app.py: data_stream_worker, clear_accident, start and stop.

   eventlet.monkey_patch() makes the worker threads and the request handlers
   green threads of one hub: a green thread runs until it blocks, and the
   only blocking call of a tick is the time.sleep at its end.  cpu is the
   green thread that is running; the others wait. *)

\* the cars of simulator.cars, in the order of generate_speed_data
SimCars == <<"Car1">>
\* the speeds generate_speed_data reports
AppSpeeds == {0, 30, 2 * NORMAL_SPEED_MEAN}

\* mutant of MayRun: threads preempt each other (no monkey_patch)
MayRun_Preemptive(g) == TRUE

\* green thread g (a worker, or 0 for a request handler) may take a step:
\* no other green thread is between two blocking calls
MayRun(g) == cpu = 0 \/ cpu = g

\* simulator.generate_speed_data(): one observation per car
GenerateSpeedData(ts, speeds) ==
    [i \in 1..Len(SimCars) |->
        [car_id |-> SimCars[i], timestamp |-> ts, speed |-> speeds[i]]]

\* any(a['id'] == id for a in active)
Listed(active, id) == \E i \in 1..Len(active) : active[i].id = id

\* The first loop of the tick over the results rest: the accidents appended
\* to active_accidents and the accident_alert events emitted.
RECURSIVE AlertLoop(_, _, _)
AlertLoop(rest, active, alerts) ==
    IF rest = <<>>
    THEN [active |-> active, alerts |-> alerts]
    ELSE LET result   == Head(rest)
             accident == [ id            |-> result.accident_id,
                           car_id        |-> result.car_id,
                           detected_at   |-> result.timestamp,
                           initial_speed |-> result.speed,
                           confidence    |-> result.confidence,
                           status        |-> "active" ]
         IN  IF result.accident_detected /\ ~Listed(active, result.accident_id)
             THEN AlertLoop(Tail(rest), Append(active, accident),
                            Append(alerts, accident))
             ELSE AlertLoop(Tail(rest), active, alerts)

\* next((r for r in detection_results if r.get('accident_id') == id), None)
\* is a result, and that result has accident_active False
ResultSaysCleared(detection_results, id) ==
    LET found == {j \in 1..Len(detection_results) :
                     detection_results[j].accident_id = id}
    IN  /\ found # {}
        /\ ~detection_results[CHOOSE j \in found : \A k \in found : j <= k]
               .accident_active

\* The second loop of the tick over the accidents rest of active_accidents:
\* the accidents kept, and those cleared (appended to accident_history, one
\* accident_cleared event each).
RECURSIVE ClearedLoop(_, _, _, _)
ClearedLoop(rest, detection_results, kept, cleared) ==
    IF rest = <<>>
    THEN [kept |-> kept, cleared |-> cleared]
    ELSE LET accident == Head(rest)
         IN  IF ResultSaysCleared(detection_results, accident.id)
             THEN ClearedLoop(Tail(rest), detection_results, kept,
                              Append(cleared,
                                     [accident EXCEPT !.status = "cleared"]))
             ELSE ClearedLoop(Tail(rest), detection_results,
                              Append(kept, accident), cleared)

\* data_stream_worker wakes from time.sleep (or starts): it leaves the loop
\* when simulation_running is False; otherwise it generates the observations
\* of the tick and calls process_speed
WorkerWake(w, speeds) ==
    /\ workers[w].pc = "sleeping"
    /\ MayRun(w)
    /\ IF simulation_running
       THEN /\ workers' = [workers EXCEPT ![w] =
                  [ pc     |-> "processing",
                    frame  |-> NewFrame(GenerateSpeedData(clock + 1, speeds)),
                    before |-> detectors,
                    after_stop |-> IF workers[w].after_stop >= 0
                                   THEN workers[w].after_stop + 1
                                   ELSE workers[w].after_stop ]]
            /\ cpu' = w
            /\ clock' = clock + 1
            /\ tick' = [NoTick EXCEPT !.ended = pending]
       ELSE /\ workers' = [workers EXCEPT ![w].pc = "exited"]
            /\ cpu' = 0
            /\ UNCHANGED <<clock, tick>>
    /\ lastStep' = [op |-> "wake", car |-> "", was_active |-> FALSE]
    /\ UNCHANGED <<detectors, results, minted, simulation_running,
                   active_accidents, accident_history, pending>>

\* the worker's process_speed call runs one iteration of its loop; an
\* exception is caught by the except clause of the tick, which sleeps
WorkerIterate(w) ==
    /\ workers[w].pc = "processing"
    /\ MayRun(w)
    /\ \E predicted \in FramePredictions(detectors, workers[w].frame) :
       \E suffix \in 0..MaxSuffix :
         LET out    == Iterate(detectors, workers[w].frame, predicted, suffix)
             car_id == Head(workers[w].frame.rest).car_id
             status == out.frame.status
             began  == IsActive(out.detectors, car_id) /\ ~IsActive(detectors, car_id)
             ended  == IsActive(detectors, car_id) /\ ~IsActive(out.detectors, car_id)
         IN  /\ detectors' = out.detectors
             /\ workers' = [workers EXCEPT
                    ![w].frame = out.frame,
                    ![w].pc = IF status = "running" THEN "processing"
                              ELSE IF status = "returned" THEN "publishing"
                              ELSE "sleeping"]
             /\ cpu' = IF status = "raised" THEN 0 ELSE w
             /\ results' = IF status = "returned" THEN out.frame.results
                           ELSE results
             /\ tick' = IF began
                        THEN [tick EXCEPT !.activated = Append(@,
                                <<out.detectors[car_id].accident_id, car_id>>)]
                        ELSE tick
             /\ pending' = IF ended
                           THEN pending \cup {detectors[car_id].accident_id}
                           ELSE pending
             /\ minted' = IF began
                          THEN [minted EXCEPT ![car_id] =
                                  @ \cup {out.detectors[car_id].accident_id[1]}]
                          ELSE minted
             /\ lastStep' = [op |-> "iterate", car |-> car_id,
                             was_active |-> IsActive(detectors, car_id)]
    /\ UNCHANGED <<clock, simulation_running, active_accidents, accident_history>>

\* the rest of the tick after process_speed returned: the alert loop, the
\* cleared loop, the removal from active_accidents, traffic_update, and
\* time.sleep
WorkerPublish(w) ==
    /\ workers[w].pc = "publishing"
    /\ MayRun(w)
    /\ LET detection_results == workers[w].frame.results
           alerted == AlertLoop(detection_results, active_accidents, <<>>)
           swept   == ClearedLoop(alerted.active, detection_results, <<>>, <<>>)
       IN  /\ active_accidents' = swept.kept
           /\ accident_history' = accident_history \o swept.cleared
           /\ tick' = [tick EXCEPT !.alerts = alerted.alerts,
                                   !.cleared = swept.cleared,
                                   !.ended = pending]
           /\ pending' = pending \ {swept.cleared[i].id :
                                       i \in 1..Len(swept.cleared)}
    /\ workers' = [workers EXCEPT ![w].pc = "sleeping"]
    /\ cpu' = 0
    /\ lastStep' = [op |-> "publish", car |-> "", was_active |-> FALSE]
    /\ UNCHANGED <<detectors, results, clock, minted, simulation_running>>

\* the tokens of the Active cars among ids
ActiveTokens(dets, ids) ==
    {dets[c].accident_id : c \in {d \in ids \cap DOMAIN dets : dets[d].accident_active}}

\* POST /api/clear-accident with a car_id: detector.reset_car(car_id)
ClearAccidentCar(car_id) ==
    /\ MayRun(0)
    /\ ResetCar(car_id)
    /\ pending' = pending \cup ActiveTokens(detectors, {car_id})
    /\ UNCHANGED <<simulation_running, active_accidents, accident_history,
                   workers, cpu, tick>>

\* POST /api/clear-accident without car_id: detector.reset_all()
ClearAccidentAll ==
    /\ MayRun(0)
    /\ ResetAll
    /\ pending' = pending \cup ActiveTokens(detectors, DOMAIN detectors)
    /\ UNCHANGED <<simulation_running, active_accidents, accident_history,
                   workers, cpu, tick>>

\* the thread of worker w has been started and has not left its loop
Alive(w) == workers[w].pc \notin {"unborn", "exited"}

\* handle_start_simulation: starts a worker thread unless simulation_running
HandleStartSimulation ==
    /\ MayRun(0)
    /\ ~simulation_running
    /\ simulation_running' = TRUE
    /\ \E w \in Workers :
          /\ workers[w].pc = "unborn"
          /\ \A v \in Workers : v < w => workers[v].pc # "unborn"
          /\ workers' = [workers EXCEPT ![w].pc = "sleeping"]
    /\ lastStep' = [op |-> "start", car |-> "", was_active |-> FALSE]
    /\ UNCHANGED <<detectors, results, clock, minted, active_accidents,
                   accident_history, cpu, tick, pending>>

\* handle_stop_simulation
HandleStopSimulation ==
    /\ MayRun(0)
    /\ simulation_running
    /\ simulation_running' = FALSE
    /\ workers' = [w \in Workers |->
                     IF Alive(w) /\ workers[w].after_stop < 0
                     THEN [workers[w] EXCEPT !.after_stop = 0]
                     ELSE workers[w]]
    /\ lastStep' = [op |-> "stop", car |-> "", was_active |-> FALSE]
    /\ UNCHANGED <<detectors, results, clock, minted, active_accidents,
                   accident_history, cpu, tick, pending>>

\* the speeds of a tick keep every car's stream within the model's inputs
SpeedsAllowed(speeds) ==
    \A i \in 1..Len(SimCars) : InputAllowed(detectors, SimCars[i], speeds[i])

\* one worker, started once, and the clear_accident requests
NextApp ==
    \/ /\ HandleStartSimulation
       /\ UNCHANGED <<roundTripVars, batchVars, configVars, unitVars>>
    \/ \E w \in Workers, speeds \in [1..Len(SimCars) -> AppSpeeds] :
          /\ SpeedsAllowed(speeds)
          /\ WorkerWake(w, speeds)
          /\ UNCHANGED <<roundTripVars, batchVars, configVars, unitVars>>
    \/ \E w \in Workers :
          /\ WorkerIterate(w)
          /\ UNCHANGED <<roundTripVars, batchVars, configVars, unitVars>>
    \/ \E w \in Workers :
          /\ WorkerPublish(w)
          /\ UNCHANGED <<roundTripVars, batchVars, configVars, unitVars>>
    \/ \E c \in ObservedCars :
          /\ ClearAccidentCar(c)
          /\ UNCHANGED <<roundTripVars, batchVars, configVars, unitVars>>
    \/ /\ ClearAccidentAll
       /\ UNCHANGED <<roundTripVars, batchVars, configVars, unitVars>>

SpecApp == Init /\ [][NextApp]_vars

\* workers under start and stop events, and the clear_accident requests
NextSched ==
    \/ /\ HandleStartSimulation
       /\ UNCHANGED <<roundTripVars, batchVars, configVars, unitVars>>
    \/ /\ HandleStopSimulation
       /\ UNCHANGED <<roundTripVars, batchVars, configVars, unitVars>>
    \/ \E w \in Workers, speeds \in [1..Len(SimCars) -> AppSpeeds] :
          /\ clock < MaxSchedTicks
          /\ SpeedsAllowed(speeds)
          /\ WorkerWake(w, speeds)
          /\ UNCHANGED <<roundTripVars, batchVars, configVars, unitVars>>
    \/ \E w \in Workers :
          /\ WorkerIterate(w)
          /\ UNCHANGED <<roundTripVars, batchVars, configVars, unitVars>>
    \/ \E w \in Workers :
          /\ WorkerPublish(w)
          /\ UNCHANGED <<roundTripVars, batchVars, configVars, unitVars>>
    \/ \E c \in ObservedCars :
          /\ ClearAccidentCar(c)
          /\ UNCHANGED <<roundTripVars, batchVars, configVars, unitVars>>
    \/ /\ ClearAccidentAll
       /\ UNCHANGED <<roundTripVars, batchVars, configVars, unitVars>>

SpecSched == Init /\ [][NextSched]_vars

----------------------------------------------------------------------------
(* A detector object on its own: any sequence of update and reset calls,
   beside a newly constructed detector of the same class from the latest
   reset on *)

\* the speeds and the predictions (mph) handed to update
UnitSpeeds == {0, 30, NORMAL_SPEED_MEAN, 400}
UnitPredictions == {0, NORMAL_SPEED_MEAN, 2 * NORMAL_SPEED_MEAN}

\* CUSUMDetector(), SPRTDetector() or PageHinkleyDetector()
ConstructDetector(kind) ==
    /\ unit.kind = "none"
    /\ unit' = [unit EXCEPT !.kind = kind, !.last = "init"]
    /\ UNCHANGED fresh

\* unit.update(speed, predicted); after a reset also on the new detector
UpdateDetector(speed, predicted) ==
    LET det == DetectorUpdate(unit.kind, unit.det, speed, predicted * PredScale)
        new == DetectorUpdate(unit.kind, fresh.det, speed, predicted * PredScale)
    IN  /\ unit.kind \in DetectorKinds
        /\ unit' = [unit EXCEPT !.det = det,
                                !.out = DetectorOutput(unit.kind, det),
                                !.last = "update",
                                !.calls = @ + 1]
        /\ fresh' = [det |-> new, out |-> DetectorOutput(unit.kind, new)]

\* unit.reset(), and a new detector of the same class is constructed
ResetDetector ==
    /\ unit.kind \in DetectorKinds
    /\ unit' = [unit EXCEPT !.det = DetectorReset(unit.kind, unit.det),
                            !.last = "reset",
                            !.reset_from = DetectorOutput(unit.kind, unit.det)]
    /\ fresh' = [det |-> NewDetector, out |-> <<>>]

NextDetectors ==
    \/ \E kind \in DetectorKinds :
          /\ ConstructDetector(kind)
          /\ UNCHANGED <<detectors, results, clock, lastStep, minted,
                         roundTripVars, batchVars, configVars, appVars>>
    \/ \E speed \in UnitSpeeds, predicted \in UnitPredictions :
          /\ unit.calls < MaxUnitCalls
          /\ UpdateDetector(speed, predicted)
          /\ UNCHANGED <<detectors, results, clock, lastStep, minted,
                         roundTripVars, batchVars, configVars, appVars>>
    \/ /\ ResetDetector
       /\ UNCHANGED <<detectors, results, clock, lastStep, minted,
                      roundTripVars, batchVars, configVars, appVars>>

SpecDetectors == Init /\ [][NextDetectors]_vars


----------------------------------------------------------------------------
(* Properties *)

\* the step is a process_speed call on car c
Processed(c) ==
    /\ clock' = clock + 1
    /\ lastStep'.op = "process_speed"
    /\ lastStep'.car = c

Statistics(suite) ==
    <<suite.cusum_stat, suite.log_likelihood_ratio, suite.sum_diff, suite.min_sum>>

\* the latest step was a process_speed call, on car c
JustProcessed(c) ==
    /\ lastStep.op = "process_speed"
    /\ lastStep.car = c
    /\ results # <<>>
    /\ results[1].car_id = c

\* C1. Warm-up: while a car's retained history holds fewer than 10
\* observations, the result returned for it has accident_detected = FALSE and
\* the car is Idle, whatever the votes.
C1_WarmUp ==
    \A c \in DOMAIN detectors :
        Len(detectors[c].speed_history) < 10 =>
            /\ ~detectors[c].accident_active
            /\ (results # <<>> /\ results[1].car_id = c) =>
                   /\ ~results[1].accident_detected
                   /\ ~results[1].accident_active

\* a result of the warm-up on which all three detectors voted
C1_Witness ==
    \E c \in DOMAIN detectors :
        /\ JustProcessed(c)
        /\ Len(detectors[c].speed_history) < 10
        /\ results[1].confidence = 3
        /\ ~results[1].accident_detected

\* C2. A car goes from Idle to Active on a step iff the step processes an
\* observation of it, it was Idle, has_enough_data holds (10 or more retained
\* observations) and at least 2 detectors vote; accident_start_time is then
\* the observation's timestamp.
C2_Activation ==
    [][ \A c \in Cars :
          LET idle    == ~IsActive(detectors, c)
              becomes == idle /\ IsActive(detectors', c)
          IN  /\ becomes <=>
                    ( /\ idle
                      /\ Processed(c)
                      /\ Len(HistoryOf(detectors', c)) >= 10
                      /\ results'[1].confidence >= 2 )
              /\ becomes =>
                    /\ detectors'[c].accident_start_time
                           = Some(results'[1].timestamp)
                    /\ results'[1].timestamp = clock' ]_vars

\* an activation: the car was Idle, is Active, started at the observation
C2_Witness ==
    \E c \in DOMAIN detectors :
        /\ JustProcessed(c)
        /\ ~lastStep.was_active
        /\ detectors[c].accident_active
        /\ results[1].confidence = 2
        /\ detectors[c].accident_start_time = Some(results[1].timestamp)

\* C3. Token uniqueness: the accident_id minted at an Idle -> Active
\* transition differs from every accident_id minted at an earlier activation
\* of the same car.
C3_TokenUnique ==
    [][ \A c \in Cars :
          (~IsActive(detectors, c) /\ IsActive(detectors', c)) =>
              detectors'[c].accident_id[1] \notin minted[c] ]_vars

\* C4. Clearance guard: an Active car whose observation is processed becomes
\* Idle iff accident_detected is FALSE for that observation, it retains at
\* least 5 observations and the mean of its 5 most recent speeds is > 40.
C4_ClearanceGuard ==
    [][ \A c \in Cars :
          (Processed(c) /\ IsActive(detectors, c)) =>
              LET h      == detectors'[c].speed_history
                  recent == LastN(h, 5)
              IN  ~detectors'[c].accident_active <=>
                      /\ ~results'[1].accident_detected
                      /\ Len(h) >= 5
                      /\ SumSeq(recent) > 40 * 5 ]_vars

\* a clearance by process_speed: the car was Active and is Idle
C4_Witness ==
    \E c \in DOMAIN detectors :
        /\ JustProcessed(c)
        /\ lastStep.was_active
        /\ ~detectors[c].accident_active
        /\ ~results[1].accident_detected

\* C5. Clearance effect: when an Active car processes an observation with
\* votes below quorum and the mean of the last 5 speeds above 40, it becomes
\* Idle, its CUSUM, SPRT and Page-Hinkley statistics are all 0, and the speed
\* history and the predictor's history are the old ones with the observation
\* appended.
C5_ClearanceEffect ==
    [][ \A c \in Cars :
          ( /\ Processed(c)
            /\ IsActive(detectors, c)
            /\ results'[1].confidence < 2
            /\ Len(detectors'[c].speed_history) >= 5
            /\ SumSeq(LastN(detectors'[c].speed_history, 5)) > 40 * 5 )
          =>
          ( /\ ~detectors'[c].accident_active
            /\ Statistics(detectors'[c]) = <<0, 0, 0, 0>>
            /\ detectors'[c].speed_history
                   = Append(detectors[c].speed_history, results'[1].speed)
            /\ detectors'[c].arima_history
                   = Append(detectors[c].arima_history, results'[1].speed) ) ]_vars

\* a clearance that reset statistics that were not 0 and kept the history
C5_Witness ==
    \E c \in DOMAIN detectors :
        /\ JustProcessed(c)
        /\ lastStep.was_active
        /\ ~detectors[c].accident_active
        /\ results[1].ph_stat > 0
        /\ Statistics(detectors[c]) = <<0, 0, 0, 0>>
        /\ Len(detectors[c].speed_history) > 10

\* the four observations retained before the latest one are all <= 40
FourPrecedingLow(h) ==
    /\ Len(h) >= 4
    /\ \A i \in (Len(h) - 3)..Len(h) : h[i] <= 40

\* C7 as claimed. For an Active car whose four preceding observations were
\* all <= 40, a single further observation never moves it to Idle.
C7_NoSingleTickClear ==
    [][ \A c \in Cars :
          ( /\ Processed(c)
            /\ IsActive(detectors, c)
            /\ FourPrecedingLow(detectors[c].speed_history) )
          => detectors'[c].accident_active ]_vars

\* C7 as amended. For an Active car whose four preceding observations were
\* all <= 40, a single further observation x moves it to Idle only if x > 40
\* and x plus those four observations exceeds 200 (mean of the five > 40).
C7_SingleTickClearNeedsHighSpeed ==
    [][ \A c \in Cars :
          ( /\ Processed(c)
            /\ IsActive(detectors, c)
            /\ FourPrecedingLow(detectors[c].speed_history)
            /\ ~detectors'[c].accident_active )
          => /\ results'[1].speed > 40
             /\ results'[1].speed
                  + SumSeq(LastN(detectors[c].speed_history, 4)) > 200 ]_vars

\* a clearance by one observation after four observations <= 40
C7_Witness ==
    \E c \in DOMAIN detectors :
        LET h == detectors[c].speed_history
        IN  /\ JustProcessed(c)
            /\ lastStep.was_active
            /\ ~detectors[c].accident_active
            /\ Len(h) >= 5
            /\ FourPrecedingLow(SubSeq(h, 1, Len(h) - 1))
            /\ h[Len(h)] > 40

\* C9. Manual reset: after reset_car on a known car (after reset_all, for
\* every known car) the car is Idle with CUSUM, SPRT and Page-Hinkley
\* statistics 0, and applying the same reset again changes nothing.
C9_ResetIdempotent ==
    /\ (lastStep.op = "reset_car" /\ lastStep.car \in DOMAIN detectors) =>
          /\ ~detectors[lastStep.car].accident_active
          /\ Statistics(detectors[lastStep.car]) = <<0, 0, 0, 0>>
          /\ ResetCarState(detectors, lastStep.car) = detectors
    /\ lastStep.op = "reset_all" =>
          /\ \A c \in DOMAIN detectors :
                /\ ~detectors[c].accident_active
                /\ Statistics(detectors[c]) = <<0, 0, 0, 0>>
          /\ ResetAllState(detectors) = detectors

\* reset_car forced an Active car to Idle although the mean of its last 5
\* speeds is not above 40
C9_Witness ==
    /\ lastStep.op = "reset_car"
    /\ lastStep.car \in DOMAIN detectors
    /\ lastStep.was_active
    /\ ~detectors[lastStep.car].accident_active
    /\ SumSeq(LastN(detectors[lastStep.car].speed_history, 5)) <= 40 * 5

\* C10. reset_car on an identifier never observed changes nothing: the
\* registry gains no entry and every existing car's state is unchanged.
C10_UnknownReset ==
    [][ \A c \in Cars :
          ( /\ lastStep'.op = "reset_car"
            /\ lastStep'.car = c
            /\ clock' = clock
            /\ c \notin DOMAIN detectors )
          => detectors' = detectors ]_vars

\* reset_car of an unknown identifier, with an Active car in the registry
C10_Witness ==
    /\ lastStep.op = "reset_car"
    /\ lastStep.car \notin DOMAIN detectors
    /\ \E c \in DOMAIN detectors : detectors[c].accident_active

\* the round trip has fed at least one observation to both detectors
Compared == phase = "compare" /\ shadowResults # <<>> /\ results # <<>>

CallEnded == call.frame.status \in {"returned", "raised"} /\ clock > 0

\* the cars of the observations of a list that lack 'speed'
FailedCars(input) ==
    {input[i].car_id : i \in {j \in 1..Len(input) : ~WellFormed(input[j])}}

\* C11. Fault isolation: when processing one car's observation fails (it has
\* no 'speed'), every well-formed observation of the batch still gets a
\* result from the call, and the failing car's state is what it was before:
\* no registry entry is created for it and nothing is appended.
C11_FaultIsolation ==
    (CallEnded /\ FailedCars(call.frame.input) # {}) =>
        LET input == call.frame.input
        IN  /\ \A i \in 1..Len(input) :
                  WellFormed(input[i]) =>
                      \E j \in 1..Len(results) :
                          /\ results[j].car_id = input[i].car_id
                          /\ results[j].timestamp = input[i].timestamp
            /\ \A c \in FailedCars(input) :
                  /\ c \notin DOMAIN call.before => c \notin DOMAIN detectors
                  /\ (c \in DOMAIN call.before /\ Appended(input, c) = 0) =>
                        detectors[c] = call.before[c]

\* C17. One result per observation: a call of process_speed on a list of
\* observations that all carry 'speed' and 'timestamp' returns a list of the
\* same length whose i-th result has the car_id, timestamp and speed of the
\* i-th observation.
C17_OneResultPerObservation ==
    LET input == call.frame.input
    IN  (CallEnded /\ FailedCars(input) = {}) =>
            /\ call.frame.status = "returned"
            /\ Len(results) = Len(input)
            /\ \A i \in 1..Len(input) :
                  /\ results[i].car_id = input[i].car_id
                  /\ results[i].timestamp = input[i].timestamp
                  /\ results[i].speed = input[i].speed

\* a returned list of two results: the first observation activated its car,
\* the second caused no transition
C17_Witness ==
    /\ CallEnded
    /\ call.frame.status = "returned"
    /\ Len(call.frame.input) = 2
    /\ Len(results) = 2
    /\ ~IsActive(call.before, results[1].car_id)
    /\ results[1].accident_active
    /\ results[2].car_id # results[1].car_id
    /\ ~results[2].accident_active

\* the latest update_config request carries a value the claim calls invalid
InvalidRequest(data) ==
    \/ "cusum_threshold" \in DOMAIN data /\ data["cusum_threshold"] <= 0
    \/ "simulation_speed" \in DOMAIN data /\ data["simulation_speed"] <= 0
    \/ "noise_level" \in DOMAIN data /\ data["noise_level"] < 0

\* C12. Config update takes effect: once handle_update_config has been
\* called with cusum_threshold = t, config_updated has been emitted and every
\* observation processed afterwards, of a car that existed before or of one
\* created afterwards, has its CUSUM alert computed as cusum_stat > t.
C12_ConfigTakesEffect ==
    (update.count > 0 /\ "cusum_threshold" \in DOMAIN update.data) =>
        /\ update.acked
        /\ \A c \in DOMAIN detectors :
              JustProcessed(c) =>
                  ( CusumAlert(results[1].cusum_stat, detectors[c].cusum_threshold)
                    <=> results[1].cusum_stat
                           > update.data["cusum_threshold"] * PredScale )

\* C13. Invalid configuration is rejected: after a handle_update_config
\* request carrying cusum_threshold <= 0, simulation_speed <= 0 or
\* noise_level < 0, Config is what it was before the request.
C13_InvalidRejected ==
    (lastStep.op = "update_config" /\ InvalidRequest(update.data)) =>
        config = update.before

\* a tick has just ended: the worker went to sleep after its two loops
TickEnded == lastStep.op = "publish"

\* C15. Alert per activation: the accident_alert events of a tick are, in
\* order, one per Idle -> Active transition made by the tick's process_speed
\* call, each carrying that activation's accident_id and car_id; a tick
\* without such a transition emits none.
C15_AlertPerActivation ==
    TickEnded =>
        /\ Len(tick.alerts) = Len(tick.activated)
        /\ \A i \in 1..Len(tick.alerts) :
              <<tick.alerts[i].id, tick.alerts[i].car_id>> = tick.activated[i]

\* C16. Clearance event per deactivation: at the end of a tick, every
\* accident that ended before or during it (by process_speed or by
\* clear_accident) and had no accident_cleared yet has got exactly one
\* accident_cleared in this tick, is no longer in active_accidents and is in
\* accident_history; no other accident_cleared was emitted.
C16_ClearedPerDeactivation ==
    TickEnded =>
        LET ids == {tick.cleared[i].id : i \in 1..Len(tick.cleared)}
        IN  /\ ids = tick.ended
            /\ Len(tick.cleared) = Cardinality(ids)
            /\ \A id \in tick.ended :
                  /\ ~Listed(active_accidents, id)
                  /\ Listed(accident_history, id)

\* worker w is inside its call of process_speed
InProcessSpeed(w) == workers[w].pc = "processing"

\* the call of process_speed of worker w applied each observation of its
\* input exactly once: the car's history is the one at the call plus the
\* observation
AppliedOnce(w) ==
    \A i \in 1..Len(workers[w].frame.input) :
        LET data == workers[w].frame.input[i]
        IN  HistoryOf(detectors, data.car_id)
               = Append(HistoryOf(workers[w].before, data.car_id), data.speed)

\* C14. Single in-flight update per entity: at most one worker is inside
\* process_speed; while a worker is inside process_speed the registry changes
\* only by that call's own iterations (no reset and no other call takes
\* effect in between); and when the call has returned, each observation
\* generated for it has been applied to its car exactly once.
C14_SingleInFlight ==
    [][ /\ Cardinality({w \in Workers : InProcessSpeed(w)'}) <= 1
        /\ \A w \in Workers :
              (InProcessSpeed(w) /\ detectors' # detectors) =>
                  workers'[w].frame # workers[w].frame
        /\ \A w \in Workers :
              (workers'[w].pc = "publishing") => AppliedOnce(w)' ]_vars

\* two worker threads are alive; one has returned from process_speed on a
\* car the other observed in an earlier tick
C14_Witness ==
    \E w \in Workers, v \in Workers :
        /\ w # v
        /\ workers[w].pc = "publishing"
        /\ workers[v].pc = "sleeping"
        /\ workers[v].frame.input # <<>>
        /\ HistoryOf(workers[w].before, "Car1") # <<>>
        /\ AppliedOnce(w)

\* the running statistics of the detector object
UnitStatistics(kind, det) ==
    IF kind = "cusum" THEN <<det.cusum_stat>>
    ELSE IF kind = "sprt" THEN <<det.log_likelihood_ratio>>
    ELSE <<det.sum_diff, det.min_sum>>

\* C18. Detector reset: right after reset() the running statistics of a
\* CUSUMDetector, SPRTDetector or PageHinkleyDetector are 0 and a second
\* reset() changes nothing; on every update after a reset the detector
\* returns the same statistic and alert (decision) as a newly constructed
\* detector of its class fed the same inputs since the reset.
C18_DetectorReset ==
    /\ unit.last = "reset" =>
          /\ \A i \in DOMAIN UnitStatistics(unit.kind, unit.det) :
                UnitStatistics(unit.kind, unit.det)[i] = 0
          /\ DetectorReset(unit.kind, unit.det) = unit.det
    /\ (unit.last = "update" /\ fresh.out # <<>>) =>
          /\ unit.out = fresh.out
          /\ unit.det = fresh.det

\* on an update after a reset of a detector whose statistic was above 0,
\* the detector alerts (decides 'accident') as the new one does
C18_Witness ==
    /\ unit.last = "update"
    /\ unit.reset_from # <<>>
    /\ unit.reset_from[1] > 0
    /\ fresh.out # <<>>
    /\ unit.out = fresh.out
    /\ unit.out[1] > 0
    /\ unit.out[2] \in {TRUE, "accident"}

\* C19. CUSUM non-negativity: after any sequence of update and reset calls
\* on a CUSUMDetector, cusum_stat >= 0, and the alert update returned is
\* TRUE exactly when the new cusum_stat is above the threshold.
C19_CusumNonNegative ==
    unit.kind = "cusum" =>
        /\ unit.det.cusum_stat >= 0
        /\ unit.last = "update" =>
              /\ unit.out[1] = unit.det.cusum_stat
              /\ unit.out[2] <=>
                    unit.det.cusum_stat > unit.det.cusum_threshold * PredScale

\* an update after a reset left the statistic at 0, below a statistic that
\* had alerted before the reset
C19_Witness ==
    /\ unit.kind = "cusum"
    /\ unit.last = "update"
    /\ unit.det.cusum_stat = 0
    /\ ~unit.out[2]
    /\ unit.reset_from # <<>>
    /\ unit.reset_from[2] = TRUE

\* C20. Page-Hinkley non-negativity: after any sequence of update and reset
\* calls on a PageHinkleyDetector, min_sum <= sum_diff and min_sum <= 0, and
\* the statistic update returned, sum_diff - min_sum, is >= 0.
C20_PageHinkleyNonNegative ==
    unit.kind = "ph" =>
        /\ unit.det.min_sum <= unit.det.sum_diff
        /\ unit.det.min_sum <= 0
        /\ unit.last = "update" =>
              /\ unit.out[1] = unit.det.sum_diff - unit.det.min_sum
              /\ unit.out[1] >= 0

\* the sum has fallen below 0 and risen again: the statistic is above 0 with
\* min_sum below 0
C20_Witness ==
    /\ unit.kind = "ph"
    /\ unit.last = "update"
    /\ unit.det.min_sum < 0
    /\ unit.det.sum_diff > unit.det.min_sum
    /\ unit.out[1] > 0

\* the suite of car c in a registry, <<>> when the car is not registered
SuiteOf(dets, c) == IF c \in DOMAIN dets THEN <<dets[c]>> ELSE <<>>

\* C21. Entity independence: a process_speed or reset_car call for one car
\* leaves the suite of every other car as it was (history, predictor,
\* detector statistics, lifecycle fields), and the followed car's suite and
\* results are those of a detector that has been given the followed car's
\* observations and resets only.
C21_EntityIndependence ==
    /\ [](/\ SuiteOf(detectors, Followed) = SuiteOf(shadow, Followed)
          /\ JustProcessed(Followed) => results = shadowResults)
    /\ [][\A b \in Cars \ {lastStep'.car} :
             SuiteOf(detectors', b) = SuiteOf(detectors, b)]_vars

\* the followed car is activated by its latest observation, as on the
\* detector that holds it alone, while the other car is registered with
\* MaxOther observations and statistics of its own
C21_Witness ==
    /\ JustProcessed(Followed)
    /\ results[1].accident_detected
    /\ ~lastStep.was_active
    /\ results = shadowResults
    /\ OtherCar \in DOMAIN detectors
    /\ OtherCar \notin DOMAIN shadow
    /\ Len(detectors[OtherCar].speed_history) = MaxOther
    /\ detectors[OtherCar].log_likelihood_ratio > 0
    /\ Statistics(detectors[OtherCar]) # Statistics(detectors[Followed])

\* C22. Detected implies active: every result returned by process_speed
\* with accident_detected = TRUE has accident_active = TRUE and an
\* accident_id; and every car with accident_active = TRUE has an accident_id
\* and an accident_start_time.
C22_DetectedImpliesActive ==
    /\ \A i \in DOMAIN results :
          results[i].accident_detected =>
              /\ results[i].accident_active
              /\ results[i].accident_id # None
    /\ \A c \in DOMAIN detectors :
          detectors[c].accident_active =>
              /\ detectors[c].accident_id # None
              /\ detectors[c].accident_start_time # None

\* an accident is detected on a car that was Active already: no lifecycle
\* branch is taken, the result carries the id minted earlier
C22_Witness ==
    \E c \in DOMAIN detectors :
        /\ JustProcessed(c)
        /\ lastStep.was_active
        /\ results[1].accident_detected
        /\ results[1].accident_active
        /\ results[1].accident_id = detectors[c].accident_id
        /\ detectors[c].accident_start_time # Some(results[1].timestamp)

C24_SingleWorker ==
    /\ Cardinality({w \in Workers : Alive(w)}) <= 1
    /\ \A w \in Workers : workers[w].after_stop <= 1

====
